---- MODULE Spec2Model ----
(***************************************************************************)
(* Model of src/database/mongo.ts: the transaction runner withTransaction  *)
(* and the AsyncLocalStorage that carries the ambient ClientSession along  *)
(* one asynchronous call chain.                                            *)
(*                                                                         *)
(* A call chain is a sequence of awaited calls; its activation records     *)
(* are kept in stack[c].  store[c] is what sessionStorage.getStore()       *)
(* returns in the asynchronous context the chain is currently executing.   *)
(* The driver (MongoClient / ClientSession) is the environment: each of    *)
(* its steps either succeeds or throws.                                    *)
(***************************************************************************)
EXTENDS Integers, Sequences, FiniteSets, TLC

\* ---- bounds ----
MaxCalls == 2     \* top-level withTransaction calls a run makes
MaxNested == 1    \* withTransaction calls made from inside work callbacks in a run
MaxDetached == 1  \* continuations work callbacks start without awaiting them

\* ---- inputs ----
Chains == {"c1", "c2"}
Values == {"v1", "v2"}
WorkErrors == {"boom", "oops"}
OptionSet == {"undefined", "majority"}

NoSession == 0    \* sessionStorage.getStore() === undefined

None == [k |-> "none", p |-> ""]
Val(v) == [k |-> "value", p |-> v]
Fail(e) == [k |-> "failure", p |-> e]

VARIABLES
  stack,      \* chain -> sequence of withTransaction activations, outermost first
  store,      \* chain -> ambient session of the chain's current async context
  sessions,   \* sequence of the ClientSessions client.startSession() returned
  trace,      \* chain -> driver steps and callback invocations observed since
              \*          the chain's current top-level call began
  last,       \* chain -> the withTransaction call of the chain that settled last
  quota,      \* chain -> top-level calls the chain will still make
  nests,      \* calls work callbacks will still make
  client,     \* the MongoClient of MongoImpl and what its caller saw of it
  detached    \* continuations a work callback started and did not await

vars == <<stack, store, sessions, trace, last, quota, nests, client, detached>>

\* what the steps of an awaited withTransaction call leave alone
aux == <<client, detached>>

Top(c) == stack[c][Len(stack[c])]
Depth(c) == Len(stack[c])
Pop(stk) == SubSeq(stk, 1, Len(stk) - 1)

\* a store shared by the whole process instead of one per call chain
getStoreShared(c) ==
  LET live == {d \in Chains : store[d] # NoSession}
  IN IF live = {} THEN NoSession ELSE store[CHOOSE d \in live : TRUE]

\* sessionStorage.getStore()
getStore(c) == store[c]

\* the ambient session is never looked at
IsOutermostAlways(parentSession) == TRUE

\* parentSession === undefined
IsOutermost(parentSession) == parentSession = NoSession

\* an observed step: which one, whether it returned, the session it was
\* made on, and of the withTransaction call that made it the nesting depth
\* and the parentSession it read
Ev(op, ok, s, d, amb) == [op |-> op, ok |-> ok, s |-> s, d |-> d, amb |-> amb]

\* the caller of a call is either the top level of the chain or a work
\* callback, which awaits the call
AtTop(c) == stack[c] = <<>>
CanCall(c) ==
  IF AtTop(c) THEN quota[c] > 0
  ELSE Top(c).pc = "work" /\ nests > 0

Suspend(stk) ==
  IF stk = <<>> THEN stk
  ELSE [stk EXCEPT ![Len(stk)] = [@ EXCEPT !.pc = "await"]]

Resume(stk) ==
  IF stk = <<>> THEN stk
  ELSE [stk EXCEPT ![Len(stk)] = [@ EXCEPT !.pc = "work"]]

Charge(c) ==
  /\ quota' = IF AtTop(c) THEN [quota EXCEPT ![c] = @ - 1] ELSE quota
  /\ nests' = IF AtTop(c) THEN nests ELSE nests - 1

\* trace and last cover one top-level call of the chain: they start afresh
\* when the chain makes its next top-level call
Begun(c) == IF AtTop(c) THEN <<>> ELSE trace[c]
Observe(c, e) == trace' = [trace EXCEPT ![c] = Append(@, e)]

Frame(kind, pc, s, parent, o) ==
  [kind |-> kind, pc |-> pc, session |-> s, saved |-> parent, opts |-> o,
   work |-> None, res |-> None]

NoCall ==
  [depth |-> 0, kind |-> "none", amb |-> NoSession, sid |-> NoSession,
   work |-> None, out |-> None]
Summary(d, kind, amb, s, work, out) ==
  [depth |-> d, kind |-> kind, amb |-> amb, sid |-> s, work |-> work, out |-> out]

\* the promise of the top activation settles with out: the activation is
\* removed and its awaiting caller continues
Settle(c, out) ==
  /\ stack' = [stack EXCEPT ![c] = Resume(Pop(@))]
  /\ last' = [last EXCEPT ![c] =
       Summary(Depth(c), Top(c).kind, Top(c).saved, Top(c).session, Top(c).work, out)]

SetTop(c, f) == [stack EXCEPT ![c] = [@ EXCEPT ![Len(@)] = f]]

\* fn is called without the session being made the store
EnterRunLost(c, f) == store

\* sessionStorage.run(session, fn): fn runs with session as the store ...
EnterRun(c, f) == [store EXCEPT ![c] = f.session]
\* the session stays the store after fn has settled
ExitRunKept(c, f) == store

\* ... and the caller's continuation sees the previous store again
ExitRun(c, f) == [store EXCEPT ![c] = f.saved]

\* ---- withTransaction, outermost branch ----

\* lines 69-72: no ambient session, client.startSession() returns
CallOuter(c, o) ==
  /\ CanCall(c)
  /\ IsOutermost(getStore(c))
  /\ sessions' = Append(sessions,
       [owner |-> c, txn |-> "none", opts |-> "unset", ended |-> FALSE])
  /\ stack' = [stack EXCEPT ![c] =
       Append(Suspend(@), Frame("outer", "startTransaction", Len(sessions) + 1, getStore(c), o))]
  /\ trace' = [trace EXCEPT ![c] =
       Append(Begun(c), Ev("startSession", TRUE, Len(sessions) + 1, Depth(c) + 1, getStore(c)))]
  /\ last' = IF AtTop(c) THEN [last EXCEPT ![c] = NoCall] ELSE last
  /\ Charge(c)
  /\ UNCHANGED store
  /\ UNCHANGED aux

\* lines 69-71: client.startSession() throws; nothing is in a try block yet
CallOuterFail(c) ==
  /\ CanCall(c)
  /\ IsOutermost(getStore(c))
  /\ trace' = [trace EXCEPT ![c] =
       Append(Begun(c), Ev("startSession", FALSE, NoSession, Depth(c) + 1, getStore(c)))]
  /\ last' = [last EXCEPT ![c] =
       Summary(Depth(c) + 1, "outer", getStore(c), NoSession, None,
               Fail("startSessionError"))]
  /\ Charge(c)
  /\ UNCHANGED <<stack, store, sessions>>
  /\ UNCHANGED aux

\* lines 74-76: inside sessionStorage.run, session.startTransaction(options)
StartTransaction(c) ==
  /\ stack[c] # <<>>
  /\ Top(c).pc = "startTransaction"
  /\ LET f == Top(c) IN
       /\ store' = EnterRun(c, f)
       /\ sessions' = [sessions EXCEPT ![f.session].txn = "active",
                                       ![f.session].opts = f.opts]
       /\ Observe(c, Ev("startTransaction", TRUE, f.session, Depth(c), f.saved))
       /\ stack' = SetTop(c, [f EXCEPT !.pc = "callback"])
  /\ UNCHANGED <<last, quota, nests>>
  /\ UNCHANGED aux

\* startTransaction inside the inner try: its failure reaches the catch
StartTransactionFailCaught(c) ==
  /\ stack[c] # <<>>
  /\ Top(c).pc = "startTransaction"
  /\ LET f == Top(c) IN
       /\ store' = EnterRun(c, f)
       /\ Observe(c, Ev("startTransaction", FALSE, f.session, Depth(c), f.saved))
       /\ stack' = SetTop(c, [f EXCEPT !.pc = "abort",
                                       !.res = Fail("startTransactionError")])
  /\ UNCHANGED <<sessions, last, quota, nests>>
  /\ UNCHANGED aux

\* startTransaction outside the try whose finally ends the session
StartTransactionFailNoFinally(c) ==
  /\ stack[c] # <<>>
  /\ Top(c).pc = "startTransaction"
  /\ LET f == Top(c) IN
       /\ store' = ExitRun(c, f)
       /\ Observe(c, Ev("startTransaction", FALSE, f.session, Depth(c), f.saved))
       /\ Settle(c, Fail("startTransactionError"))
  /\ UNCHANGED <<sessions, quota, nests>>
  /\ UNCHANGED aux

\* line 75 throws: outside the inner try, so only the finally of line 88 runs
StartTransactionFail(c) ==
  /\ stack[c] # <<>>
  /\ Top(c).pc = "startTransaction"
  /\ LET f == Top(c) IN
       /\ store' = ExitRun(c, f)
       /\ Observe(c, Ev("startTransaction", FALSE, f.session, Depth(c), f.saved))
       /\ stack' = SetTop(c, [f EXCEPT !.pc = "endSession",
                                       !.res = Fail("startTransactionError")])
  /\ UNCHANGED <<sessions, last, quota, nests>>
  /\ UNCHANGED aux

\* line 78 / line 93: callback(session) is invoked
InvokeWork(c) ==
  /\ stack[c] # <<>>
  /\ Top(c).pc = "callback"
  /\ LET f == Top(c) IN
       /\ Observe(c, Ev("work", TRUE, f.session, Depth(c), f.saved))
       /\ stack' = SetTop(c, [f EXCEPT !.pc = "work"])
  /\ UNCHANGED <<store, sessions, last, quota, nests>>
  /\ UNCHANGED aux

\* where control goes when the awaited callback settles
AfterWork(f, out) ==
  IF f.kind = "outer"
  THEN IF out.k = "value" THEN "commit" ELSE "abort"
  ELSE "return"

\* the callback resolves with v
WorkReturn(c, v) ==
  /\ stack[c] # <<>>
  /\ Top(c).pc = "work"
  /\ LET f == Top(c) IN
       stack' = SetTop(c, [f EXCEPT !.work = Val(v), !.pc = AfterWork(f, Val(v))])
  /\ UNCHANGED <<store, sessions, trace, last, quota, nests>>
  /\ UNCHANGED aux

\* the callback rejects with e (its own failure, or an uncaught one of a
\* nested call); in the outermost call line 82 catches e
WorkThrow(c, e) ==
  /\ stack[c] # <<>>
  /\ Top(c).pc = "work"
  /\ LET f == Top(c) IN
       stack' = SetTop(c, [f EXCEPT !.work = Fail(e), !.res = Fail(e),
                                    !.pc = AfterWork(f, Fail(e))])
  /\ UNCHANGED <<store, sessions, trace, last, quota, nests>>
  /\ UNCHANGED aux

\* line 79 resolves, line 81 returns ret out of sessionStorage.run
Commit(c) ==
  /\ stack[c] # <<>>
  /\ Top(c).pc = "commit"
  /\ LET f == Top(c) IN
       /\ sessions' = [sessions EXCEPT ![f.session].txn = "committed"]
       /\ Observe(c, Ev("commit", TRUE, f.session, Depth(c), f.saved))
       /\ stack' = SetTop(c, [f EXCEPT !.pc = "endSession", !.res = f.work])
       /\ store' = ExitRun(c, f)
  /\ UNCHANGED <<last, quota, nests>>
  /\ UNCHANGED aux

\* line 79 rejects inside the try of line 77: the catch of line 82 runs
CommitFail(c) ==
  /\ stack[c] # <<>>
  /\ Top(c).pc = "commit"
  /\ LET f == Top(c) IN
       /\ Observe(c, Ev("commit", FALSE, f.session, Depth(c), f.saved))
       /\ stack' = SetTop(c, [f EXCEPT !.pc = "abort", !.res = Fail("commitError")])
  /\ UNCHANGED <<store, sessions, last, quota, nests>>
  /\ UNCHANGED aux

\* the catch block without its throw e: the call resolves with undefined
AbortNoRethrow(c) ==
  /\ stack[c] # <<>>
  /\ Top(c).pc = "abort"
  /\ LET f == Top(c) IN
       /\ sessions' = [sessions EXCEPT ![f.session].txn = "aborted"]
       /\ Observe(c, Ev("abort", TRUE, f.session, Depth(c), f.saved))
       /\ stack' = SetTop(c, [f EXCEPT !.pc = "endSession", !.res = Val("undefined")])
       /\ store' = ExitRun(c, f)
  /\ UNCHANGED <<last, quota, nests>>
  /\ UNCHANGED aux

\* line 83 resolves, line 85 rethrows the caught e (res holds it)
Abort(c) ==
  /\ stack[c] # <<>>
  /\ Top(c).pc = "abort"
  /\ LET f == Top(c) IN
       /\ sessions' = [sessions EXCEPT ![f.session].txn = "aborted"]
       /\ Observe(c, Ev("abort", TRUE, f.session, Depth(c), f.saved))
       /\ stack' = SetTop(c, [f EXCEPT !.pc = "endSession"])
       /\ store' = ExitRun(c, f)
  /\ UNCHANGED <<last, quota, nests>>
  /\ UNCHANGED aux

\* endSession after the try block instead of in a finally
AbortFailNoFinally(c) ==
  /\ stack[c] # <<>>
  /\ Top(c).pc = "abort"
  /\ LET f == Top(c) IN
       /\ Observe(c, Ev("abort", FALSE, f.session, Depth(c), f.saved))
       /\ Settle(c, Fail("abortError"))
       /\ store' = ExitRun(c, f)
  /\ UNCHANGED <<sessions, quota, nests>>
  /\ UNCHANGED aux

\* line 83 rejects: its failure leaves the catch block instead of e
AbortFail(c) ==
  /\ stack[c] # <<>>
  /\ Top(c).pc = "abort"
  /\ LET f == Top(c) IN
       /\ Observe(c, Ev("abort", FALSE, f.session, Depth(c), f.saved))
       /\ stack' = SetTop(c, [f EXCEPT !.pc = "endSession", !.res = Fail("abortError")])
       /\ store' = ExitRun(c, f)
  /\ UNCHANGED <<sessions, last, quota, nests>>
  /\ UNCHANGED aux

\* lines 88-91: endSession resolves, the pending completion goes through
EndSession(c) ==
  /\ stack[c] # <<>>
  /\ Top(c).pc = "endSession"
  /\ LET f == Top(c) IN
       /\ sessions' = [sessions EXCEPT ![f.session].ended = TRUE]
       /\ Observe(c, Ev("endSession", TRUE, f.session, Depth(c), f.saved))
       /\ Settle(c, f.res)
  /\ UNCHANGED <<store, quota, nests>>
  /\ UNCHANGED aux

\* a failure of endSession caught and dropped
EndSessionFailSwallowed(c) ==
  /\ stack[c] # <<>>
  /\ Top(c).pc = "endSession"
  /\ LET f == Top(c) IN
       /\ Observe(c, Ev("endSession", FALSE, f.session, Depth(c), f.saved))
       /\ Settle(c, f.res)
  /\ UNCHANGED <<store, sessions, quota, nests>>
  /\ UNCHANGED aux

\* line 89 rejects: a failure in finally replaces the pending completion
EndSessionFail(c) ==
  /\ stack[c] # <<>>
  /\ Top(c).pc = "endSession"
  /\ LET f == Top(c) IN
       /\ Observe(c, Ev("endSession", FALSE, f.session, Depth(c), f.saved))
       /\ Settle(c, Fail("endSessionError"))
  /\ UNCHANGED <<store, sessions, quota, nests>>
  /\ UNCHANGED aux

\* ---- withTransaction, nested branch ----

\* the nested branch starting the transaction again with its own options
CallNestedRestart(c, o) ==
  /\ CanCall(c)
  /\ ~IsOutermost(getStore(c))
  /\ stack' = [stack EXCEPT ![c] =
       Append(Suspend(@), Frame("nested", "callback", getStore(c), getStore(c), o))]
  /\ trace' = [trace EXCEPT ![c] = Begun(c)]
  /\ last' = IF AtTop(c) THEN [last EXCEPT ![c] = NoCall] ELSE last
  /\ Charge(c)
  /\ sessions' = [sessions EXCEPT ![getStore(c)].txn = "active",
                                  ![getStore(c)].opts = o]
  /\ UNCHANGED store
  /\ UNCHANGED aux

\* lines 69-70, 92: an ambient session is present; the options argument is
\* bound but never read
CallNested(c, o) ==
  /\ CanCall(c)
  /\ ~IsOutermost(getStore(c))
  /\ stack' = [stack EXCEPT ![c] =
       Append(Suspend(@), Frame("nested", "callback", getStore(c), getStore(c), o))]
  /\ trace' = [trace EXCEPT ![c] = Begun(c)]
  /\ last' = IF AtTop(c) THEN [last EXCEPT ![c] = NoCall] ELSE last
  /\ Charge(c)
  /\ UNCHANGED <<store, sessions>>
  /\ UNCHANGED aux

\* lines 93-94: the awaited callback settles and the call settles the same way
NestedReturn(c) ==
  /\ stack[c] # <<>>
  /\ Top(c).pc = "return"
  /\ Settle(c, Top(c).work)
  /\ UNCHANGED <<store, sessions, trace, quota, nests>>
  /\ UNCHANGED aux

\* ---- MongoImpl: construction and the client facade ----

\* fields of MongoClientOptions a caller may supply, and values for them
Fields == {"monitorCommands", "maxPoolSize", "appName"}
FieldValues(f) ==
  CASE f = "monitorCommands" -> {"absent", "true", "false"}
    [] f = "maxPoolSize" -> {"absent", "10", "50"}
    [] f = "appName" -> {"absent", "app"}
CallerOptions == {g \in [Fields -> {"absent", "true", "false", "10", "50", "app"}] :
                    \A f \in Fields : g[f] \in FieldValues(f)}
NoOptions == [f \in Fields |-> "absent"]

PingErrors == {"networkTimeout", "notConnected"}
NoProbe == [conn |-> "none", ping |-> None, out |-> None]

\* lines 26-27: options is assigned a fresh object, which new MongoClient gets
ClientOptions(given) ==
  [f \in Fields |-> IF f = "monitorCommands" THEN "true" ELSE "absent"]

NewClient(given) ==
  [built |-> TRUE, given |-> given, opts |-> ClientOptions(given),
   conn |-> "new", probe |-> NoProbe]

\* lines 25-27: MongoImpl(url, db, options)
Construct ==
  /\ ~client.built
  /\ client' = NewClient(client.given)
  /\ UNCHANGED <<stack, store, sessions, trace, last, quota, nests, detached>>

\* lines 45-49: client.connect() resolves
Connect ==
  /\ client.built
  /\ client.conn # "connected"
  /\ client' = [client EXCEPT !.conn = "connected"]
  /\ UNCHANGED <<stack, store, sessions, trace, last, quota, nests, detached>>

\* lines 56-58: client.close(force ?? false)
Disconnect ==
  /\ client.built
  /\ client.conn = "connected"
  /\ client' = [client EXCEPT !.conn = "closed"]
  /\ UNCHANGED <<stack, store, sessions, trace, last, quota, nests, detached>>

\* what the ping command can do: fail at any time, succeed only on a live
\* connection
PingOutcomes(conn) ==
  {Fail(e) : e \in PingErrors} \cup (IF conn = "connected" THEN {Val("ok")} ELSE {})

\* a probe that turns a failed ping into false
isConnectedCatching(ping) ==
  IF ping.k = "value" THEN Val("true") ELSE Val("false")

\* lines 50-55: a rejected ping leaves through the await, otherwise true
isConnectedResult(ping) ==
  IF ping.k = "value" THEN Val("true") ELSE ping

\* lines 50-55: isConnected()
IsConnected(ping) ==
  /\ client.built
  /\ ping \in PingOutcomes(client.conn)
  /\ client' = [client EXCEPT !.probe =
       [conn |-> client.conn, ping |-> ping, out |-> isConnectedResult(ping)]]
  /\ UNCHANGED <<stack, store, sessions, trace, last, quota, nests, detached>>

\* ---- withTransaction called from a continuation nobody awaits ----

\* a work callback schedules a continuation (a timer, a promise reaction, an
\* async function it does not await) that will call withTransaction; the
\* continuation runs in the asynchronous context it was created in, so it
\* reads the store its creator had
Detach(c) ==
  /\ stack[c] # <<>>
  /\ Top(c).pc = "work"
  /\ Len(detached) < MaxDetached
  /\ detached' = Append(detached,
       [chain |-> c, ctx |-> getStore(c), pc |-> "scheduled", session |-> NoSession,
        ended |-> FALSE, txn |-> "none", work |-> None])
  /\ UNCHANGED <<stack, store, sessions, trace, last, quota, nests, client>>

\* lines 69-70, 92-93 in the continuation: the store of its context is the
\* parentSession, and callback(parentSession) is invoked; ended and txn are
\* the state of that session at the invocation
DetachedCall(i) ==
  /\ detached[i].pc = "scheduled"
  /\ ~IsOutermost(detached[i].ctx)
  /\ detached' = [detached EXCEPT ![i] =
       [@ EXCEPT !.pc = "work", !.session = detached[i].ctx,
                 !.ended = sessions[detached[i].ctx].ended,
                 !.txn = sessions[detached[i].ctx].txn]]
  /\ UNCHANGED <<stack, store, sessions, trace, last, quota, nests, client>>

\* lines 93-94 in the continuation: the callback settles, and so does the call
DetachedReturn(i, out) ==
  /\ detached[i].pc = "work"
  /\ detached' = [detached EXCEPT ![i] = [@ EXCEPT !.pc = "done", !.work = out]]
  /\ UNCHANGED <<stack, store, sessions, trace, last, quota, nests, client>>

\* ---- specifications ----

Start ==
  /\ stack = [c \in Chains |-> <<>>]
  /\ store = [c \in Chains |-> NoSession]
  /\ sessions = <<>>
  /\ trace = [c \in Chains |-> <<>>]
  /\ last = [c \in Chains |-> NoCall]
  /\ nests = MaxNested
  /\ detached = <<>>
  /\ client = NewClient(NoOptions)

\* one chain makes its calls one after the other
Init ==
  /\ Start
  /\ quota = [c \in Chains |-> IF c = "c1" THEN MaxCalls ELSE 0]

\* two unrelated chains run concurrently, each making one top-level call
InitConc ==
  /\ Start
  /\ quota = [c \in Chains |-> 1]

Next ==
  \/ \E c \in Chains, o \in OptionSet : CallOuter(c, o)
  \/ \E c \in Chains : CallOuterFail(c)
  \/ \E c \in Chains : StartTransaction(c)
  \/ \E c \in Chains : StartTransactionFail(c)
  \/ \E c \in Chains : InvokeWork(c)
  \/ \E c \in Chains, v \in Values : WorkReturn(c, v)
  \/ \E c \in Chains, e \in WorkErrors : WorkThrow(c, e)
  \/ \E c \in Chains : Commit(c)
  \/ \E c \in Chains : CommitFail(c)
  \/ \E c \in Chains : Abort(c)
  \/ \E c \in Chains : AbortFail(c)
  \/ \E c \in Chains : EndSession(c)
  \/ \E c \in Chains : EndSessionFail(c)
  \/ \E c \in Chains, o \in OptionSet : CallNested(c, o)
  \/ \E c \in Chains : NestedReturn(c)

Spec == Init /\ [][Next]_vars
SpecConc == InitConc /\ [][Next]_vars

\* one chain whose work callbacks may also start calls they do not await
NextDetached ==
  \/ Next
  \/ \E c \in Chains : Detach(c)
  \/ \E i \in DOMAIN detached : DetachedCall(i)
  \/ \E i \in DOMAIN detached, v \in Values : DetachedReturn(i, Val(v))
  \/ \E i \in DOMAIN detached, e \in WorkErrors : DetachedReturn(i, Fail(e))

SpecDetached == Init /\ [][NextDetached]_vars

\* every step of a call that has begun is eventually taken: the driver
\* settles each of its promises, every work callback settles, and the event
\* loop runs every continuation that is ready
Progress(c) ==
  \/ StartTransaction(c) \/ StartTransactionFail(c)
  \/ InvokeWork(c)
  \/ \E v \in Values : WorkReturn(c, v)
  \/ \E e \in WorkErrors : WorkThrow(c, e)
  \/ Commit(c) \/ CommitFail(c)
  \/ Abort(c) \/ AbortFail(c)
  \/ EndSession(c) \/ EndSessionFail(c)
  \/ NestedReturn(c)

DetachedProgress(i) ==
  \/ DetachedCall(i)
  \/ \E v \in Values : DetachedReturn(i, Val(v))
  \/ \E e \in WorkErrors : DetachedReturn(i, Fail(e))

\* one top-level call, with the calls nested in it and the continuations
\* its work callbacks leave behind
InitLive ==
  /\ Start
  /\ quota = [c \in Chains |-> IF c = "c1" THEN 1 ELSE 0]

SpecLive ==
  /\ InitLive
  /\ [][NextDetached]_vars
  /\ \A c \in Chains : WF_vars(Progress(c))
  /\ \A i \in 1..MaxDetached : WF_vars(i \in DOMAIN detached /\ DetachedProgress(i))

\* the facade alone: a caller constructs the client with some options, then
\* connects, probes and disconnects in any order
InitClient ==
  /\ stack = [c \in Chains |-> <<>>]
  /\ store = [c \in Chains |-> NoSession]
  /\ sessions = <<>>
  /\ trace = [c \in Chains |-> <<>>]
  /\ last = [c \in Chains |-> NoCall]
  /\ quota = [c \in Chains |-> 0]
  /\ nests = 0
  /\ detached = <<>>
  /\ client \in {[built |-> FALSE, given |-> g, opts |-> NoOptions,
                  conn |-> "none", probe |-> NoProbe] : g \in CallerOptions}

NextClient ==
  \/ Construct
  \/ Connect
  \/ Disconnect
  \/ \E ping \in {Val("ok")} \cup {Fail(e) : e \in PingErrors} : IsConnected(ping)

SpecClient == InitClient /\ [][NextClient]_vars

\* ---- observations on a chain's current top-level call ----

Events(c) == {trace[c][i] : i \in DOMAIN trace[c]}
At(c, op) == {i \in DOMAIN trace[c] : trace[c][i].op = op}
N(c, op) == Cardinality(At(c, op))
Ok(c, op) == \E i \in At(c, op) : trace[c][i].ok
Failed(c, op) == \E i \in At(c, op) : ~trace[c][i].ok

\* the chain's top-level call has settled: last[c] is what its caller got
Returned(c) == AtTop(c) /\ last[c].depth = 1
WorkFailed(c) == Returned(c) /\ last[c].work.k = "failure"
WorkSucceeded(c) == Returned(c) /\ last[c].work.k = "value"

DriverError(op) ==
  CASE op = "startSession" -> Fail("startSessionError")
    [] op = "startTransaction" -> Fail("startTransactionError")
    [] op = "commit" -> Fail("commitError")
    [] op = "abort" -> Fail("abortError")
    [] op = "endSession" -> Fail("endSessionError")

\* ---- claims ----

\* C1 (as stated): once the work of an outermost call has been invoked and
\* the call has settled, one session was started in the whole call tree and
\* commit and abort were attempted exactly once in total, by the outermost
\* call.
C1_OneSessionOneOutcome ==
  \A c \in Chains :
    (Returned(c) /\ N(c, "work") >= 1) =>
      /\ N(c, "startSession") = 1
      /\ N(c, "commit") + N(c, "abort") = 1
      /\ \A e \in Events(c) : e.op \in {"commit", "abort"} => e.d = 1

\* C2 (as stated): when the work of an outermost call fails, abort is
\* called, commit is not, endSession is called once, and the caller gets
\* the failure of work whatever the abort step does.
C2_WorkFailureAlwaysReraised ==
  \A c \in Chains :
    WorkFailed(c) =>
      /\ N(c, "abort") = 1
      /\ N(c, "commit") = 0
      /\ N(c, "endSession") = 1
      /\ last[c].out = last[c].work

\* C2 (amended): when the work of an outermost call fails, abort is called
\* once, commit is not, endSession is called once, whatever the abort step
\* does; the caller gets the failure of work when abort and endSession both
\* succeed.
C2_WorkFailureAborts ==
  \A c \in Chains :
    WorkFailed(c) =>
      /\ N(c, "abort") = 1
      /\ N(c, "commit") = 0
      /\ N(c, "endSession") = 1
      /\ (Ok(c, "abort") /\ Ok(c, "endSession")) => last[c].out = last[c].work

C2_Witness ==
  \E c \in Chains :
    /\ WorkFailed(c)
    /\ Ok(c, "abort") /\ Ok(c, "endSession")
    /\ last[c].out = Fail("boom")

\* C3 (as stated): when work succeeded and commit failed, abort is not
\* attempted, and with the session ended normally the caller gets the
\* commit failure.
C3_NoAbortAfterCommitFailure ==
  \A c \in Chains :
    Failed(c, "commit") =>
      /\ N(c, "abort") = 0
      /\ (Returned(c) /\ Ok(c, "endSession")) => last[c].out = Fail("commitError")

\* C4: in an outermost call endSession is called at most once, as the last
\* step of the call, never while the call is still starting the
\* transaction, running work, committing or aborting, and exactly once by
\* the time a call that started a session has settled.
C4_EndSessionOnceAndLast ==
  \A c \in Chains :
    /\ N(c, "endSession") <= 1
    /\ \A i \in At(c, "endSession") : i = Len(trace[c])
    /\ \A i \in DOMAIN stack[c] :
         stack[c][i].kind = "outer" =>
           /\ ~sessions[stack[c][i].session].ended
           /\ \A e \in Events(c) : e.op = "endSession" => e.s # stack[c][i].session
    /\ (Returned(c) /\ last[c].sid # NoSession) =>
         /\ N(c, "endSession") = 1
         /\ \A i \in At(c, "endSession") : trace[c][i].s = last[c].sid

C4_Witness ==
  \E c \in Chains :
    /\ Returned(c)
    /\ Failed(c, "commit") /\ Failed(c, "abort")
    /\ N(c, "endSession") = 1

\* C5 (as stated): when the work of an outermost call succeeds, commit is
\* called once, abort is not called, endSession is called once, and with
\* commit and endSession successful the caller gets the value of work.
C5_SuccessCommits ==
  \A c \in Chains :
    WorkSucceeded(c) =>
      /\ N(c, "commit") = 1
      /\ N(c, "abort") = 0
      /\ N(c, "endSession") = 1
      /\ (Ok(c, "commit") /\ Ok(c, "endSession")) => last[c].out = last[c].work

\* C6: with two chains running concurrently, every session a chain sees as
\* ambient, passes to a work callback or makes a driver step on is one its
\* own top-level call started, and a chain outside any call sees none.
C6_ChainsIsolated ==
  \A c \in Chains :
    /\ store[c] # NoSession => sessions[store[c]].owner = c
    /\ AtTop(c) => store[c] = NoSession
    /\ \A i \in DOMAIN stack[c] : sessions[stack[c][i].session].owner = c
    /\ \A e \in Events(c) :
         e.s # NoSession =>
           /\ sessions[e.s].owner = c
           /\ \E b \in Events(c) : b.op = "startSession" /\ b.s = e.s

C6_Witness ==
  /\ \A c \in Chains : stack[c] # <<>> /\ Top(c).pc = "work"
  /\ stack["c1"][1].session # stack["c2"][1].session
  /\ Len(stack["c2"]) = 2

\* C7: a call that found an ambient session makes no driver step: the only
\* thing it does with the session is to invoke work, and it settles the way
\* its work settled.
C7_NestedOnlyRunsWork ==
  \A c \in Chains :
    /\ \A e \in Events(c) : e.amb # NoSession => e.op = "work"
    /\ \A i \in DOMAIN stack[c] :
         stack[c][i].saved # NoSession => stack[c][i].kind = "nested"
    /\ last[c].amb # NoSession =>
         /\ last[c].kind = "nested"
         /\ last[c].work.k # "none"
         /\ last[c].out = last[c].work

C7_Witness ==
  \E c \in Chains :
    /\ last[c].amb # NoSession
    /\ last[c].out = Fail("oops")
    /\ stack[c] # <<>> /\ Top(c).pc = "work"

\* C8: every call of a chain's call tree passes to its work the session of
\* the outermost call, and the ambient session of the chain is that session
\* or none.
C8_NestedSharesSession ==
  \A c \in Chains :
    /\ \A i \in DOMAIN stack[c] : stack[c][i].session = stack[c][1].session
    /\ \A e1, e2 \in Events(c) :
         (e1.op = "work" /\ e2.op = "work") => e1.s = e2.s
    /\ store[c] # NoSession => (stack[c] # <<>> /\ store[c] = stack[c][1].session)

C8_Witness ==
  \E c \in Chains :
    /\ Len(stack[c]) = 2
    /\ stack[c][2].pc = "work"
    /\ stack[c][2].session = stack[c][1].session
    /\ \E e \in Events(c) : e.op = "work" /\ e.d = 2 /\ e.s = stack[c][1].session

\* C9 (as stated): with the session ended normally, a failure of
\* startSession, startTransaction, commit or abort is the failure the
\* caller of the outermost call gets.
C9_DriverFailureDelivered ==
  \A c \in Chains :
    Returned(c) =>
      \A op \in {"startSession", "startTransaction", "commit", "abort"} :
        (Failed(c, op) /\ ~Failed(c, "endSession")) => last[c].out = DriverError(op)

\* C10: an outermost call whose endSession failed settles with a failure,
\* never with a value.
C10_EndSessionFailureSurfaces ==
  \A c \in Chains :
    (Returned(c) /\ Failed(c, "endSession")) => last[c].out.k = "failure"

C10_Witness ==
  \E c \in Chains :
    /\ Returned(c)
    /\ Ok(c, "commit")
    /\ Failed(c, "endSession")
    /\ last[c].out = Fail("endSessionError")

\* C11: isConnected never yields false: a probe yields true exactly when
\* its ping succeeded, and a probe whose ping failed -- every probe made
\* after disconnect -- fails with the failure of the ping.
C11_ProbeTrueOrPingFailure ==
  /\ client.probe.out # Val("false")
  /\ client.probe.out = Val("true") <=> client.probe.ping.k = "value"
  /\ client.probe.ping.k = "failure" => client.probe.out = client.probe.ping
  /\ client.probe.conn = "closed" =>
       (client.probe.out.k = "failure" /\ client.probe.out = client.probe.ping)

C11_Witness ==
  /\ client.probe.conn = "closed"
  /\ client.probe.out = Fail("notConnected")

\* C18 (as stated): the options the driver client is constructed with have
\* monitorCommands on and every other field as the caller gave it.
C18_OptionsPassedThrough ==
  client.built =>
    /\ client.opts["monitorCommands"] = "true"
    /\ \A f \in Fields \ {"monitorCommands"} : client.opts[f] = client.given[f]

C13_OnlyOuterWorkDecides ==
  \A c \in Chains :
    (stack[c] # <<>> /\ last[c].depth = 2 /\ last[c].out.k = "failure") =>
      /\ stack[c][1].work.k = "value" =>
           /\ stack[c][1].pc \in {"commit", "endSession"}
           /\ N(c, "abort") = 0
           /\ stack[c][1].pc = "endSession" => N(c, "commit") = 1
      /\ (stack[c][1].pc = "abort" \/ N(c, "abort") > 0) =>
           stack[c][1].work.k = "failure"

\* position of a step in an outermost call
Rank(op) ==
  CASE op = "startSession" -> 1
    [] op = "startTransaction" -> 2
    [] op = "work" -> 3
    [] op = "commit" -> 4
    [] op = "abort" -> 5
    [] op = "endSession" -> 6

\* C14: the steps of an outermost call happen in the order startSession,
\* startTransaction, work, commit or abort, endSession, with the session
\* ambient when work is invoked; work is invoked only after a successful
\* startTransaction; a failed startSession is the only step of its call; a
\* failed startTransaction is followed by endSession alone.
C14_StepsInOrder ==
  \A c \in Chains :
    /\ \A i, j \in DOMAIN trace[c] :
         (i < j /\ trace[c][i].d = 1 /\ trace[c][j].d = 1) =>
           Rank(trace[c][i].op) < Rank(trace[c][j].op)
    /\ trace[c] # <<>> => trace[c][1].op = "startSession"
    /\ \A j \in At(c, "work") :
         \E i \in At(c, "startTransaction") : i < j /\ trace[c][i].ok
    /\ (stack[c] # <<>> /\ stack[c][1].pc \in {"callback", "work", "await"}) =>
         store[c] = stack[c][1].session
    /\ Failed(c, "startSession") => (Len(trace[c]) = 1 /\ AtTop(c))
    /\ Failed(c, "startTransaction") =>
         /\ N(c, "work") = 0 /\ N(c, "commit") = 0 /\ N(c, "abort") = 0
         /\ Returned(c) => N(c, "endSession") = 1

C14_Witness ==
  \E c \in Chains :
    /\ Returned(c)
    /\ Failed(c, "startTransaction")
    /\ Ok(c, "endSession")
    /\ Len(trace[c]) = 3

\* C15 (as stated): every work callback is invoked with a session that has
\* not been ended and whose transaction is still active, also a callback of
\* a call made from a continuation the outer work did not await.
C15_WorkOnlyOnLiveSession ==
  /\ \A c \in Chains : \A i \in DOMAIN stack[c] :
       stack[c][i].pc \in {"work", "await", "return"} =>
         /\ ~sessions[stack[c][i].session].ended
         /\ sessions[stack[c][i].session].txn = "active"
  /\ \A i \in DOMAIN detached :
       detached[i].pc # "scheduled" =>
         (~detached[i].ended /\ detached[i].txn = "active")

\* the session of the chain's settled top-level call is closed and its
\* transaction finished, as far as the driver let it
SessionClosed(c) ==
  last[c].sid # NoSession => sessions[last[c].sid].ended
TransactionFinished(c) ==
  last[c].sid # NoSession =>
    \/ sessions[last[c].sid].txn \in {"none", "committed", "aborted"}
    \/ Failed(c, "commit")
    \/ Failed(c, "abort")

\* C16 (as stated), the state once a top-level call has settled: its
\* session has been ended, and its transaction is committed or aborted
\* unless commit or abort failed.
C16_NoSessionLeftOpen ==
  \A c \in Chains :
    Returned(c) => (SessionClosed(c) /\ TransactionFinished(c))

\* C16 (amended): with every step eventually taken, every call that has
\* begun settles, awaited or not; and once a top-level call has settled its
\* session has been ended unless endSession failed, and its transaction is
\* committed or aborted unless commit or abort failed.
C16_CallsSettleAndRelease ==
  /\ \A c \in Chains : (stack[c] # <<>>) ~> AtTop(c)
  /\ \A i \in 1..MaxDetached :
       (i \in DOMAIN detached) ~> (i \in DOMAIN detached /\ detached[i].pc = "done")
  /\ [](\A c \in Chains :
         (Returned(c) /\ last[c].sid # NoSession) =>
           /\ N(c, "endSession") = 1
           /\ SessionClosed(c) \/ Failed(c, "endSession")
           /\ TransactionFinished(c))

C16_Witness ==
  \E c \in Chains :
    /\ Returned(c)
    /\ last[c].sid # NoSession
    /\ sessions[last[c].sid].ended
    /\ sessions[last[c].sid].txn = "aborted"
    /\ Failed(c, "commit")
    /\ \E i \in DOMAIN detached : detached[i].pc = "done"

\* C17: the transaction of a session is started at most once, by the
\* outermost call, and as long as that call runs the options of the
\* transaction are the options of the outermost call, whatever options the
\* nested calls were given.
C17_NestedOptionsIgnored ==
  \A c \in Chains :
    /\ N(c, "startTransaction") <= 1
    /\ \A e \in Events(c) : e.op = "startTransaction" => e.d = 1
    /\ (stack[c] # <<>> /\ Ok(c, "startTransaction")) =>
         /\ sessions[stack[c][1].session].opts = stack[c][1].opts
         /\ sessions[stack[c][1].session].txn # "none"

C17_Witness ==
  \E c \in Chains :
    /\ Len(stack[c]) = 2
    /\ stack[c][2].pc = "work"
    /\ stack[c][2].opts = "majority"
    /\ stack[c][1].opts = "undefined"
    /\ sessions[stack[c][1].session].opts = "undefined"
    /\ sessions[stack[c][1].session].txn = "active"

====
